---- MODULE Spec2Model ----
(***************************************************************************)
(* nix-user-chroot: the parent waiter (main, wait_for_child) and the       *)
(* child's root-view construction (RunChroot::run_chroot and the mirror    *)
(* engine), over a small virtual filesystem with bind mounts and symlinks. *)
(***************************************************************************)
EXTENDS Integers, Sequences, FiniteSets, TLC

(***************************************************************************)
(* Bounds of the model.                                                    *)
(***************************************************************************)
\* symbolic links one path lookup follows before the kernel gives up (ELOOP)
MaxSymlinkHops == 3
\* recursion depth explored for resolve_nix_path before the model reports
\* that the recursion does not return; the longest chain of the filesystems
\* below that does return (/dl/x) is five calls deep
MaxResolveDepth == 5
\* stop events delivered to the child in one run
MaxStops == 1
\* the user command's exit statuses are 0..MaxExitStatus
MaxExitStatus == 2

(***************************************************************************)
(* std::path::Path / PathBuf: an absolute flag and the normal components.  *)
(***************************************************************************)
Path(a, s) == [abs |-> a, parts |-> s]
AbsP(s) == Path(TRUE, s)
RelP(s) == Path(FALSE, s)

IsPrefix(s, t) == Len(s) <= Len(t) /\ SubSeq(t, 1, Len(s)) = s
Front(s) == SubSeq(s, 1, Len(s) - 1)
Last(s) == s[Len(s)]

is_absolute(p) == p.abs
join(p, q) == IF q.abs THEN q ELSE Path(p.abs, p.parts \o q.parts)
starts_with(p, base) == p.abs = base.abs /\ IsPrefix(base.parts, p.parts)
\* strip_prefix is Ok exactly when starts_with; the rest is a relative path
strip_prefix(p, base) == RelP(SubSeq(p.parts, Len(base.parts) + 1, Len(p.parts)))
\* parent() and file_name() are None for "/" and for ""
has_parent(p) == p.parts # <<>>
parent(p) == Path(p.abs, Front(p.parts))
has_file_name(p) == p.parts # <<>>
file_name(p) == Last(p.parts)

NIX == AbsP(<<"nix">>)
DEV_NULL == AbsP(<<"dev", "null">>)

(***************************************************************************)
(* The filesystem the processes see.  w.files maps the physical location   *)
(* of every inode to its node; w.mounts maps a mount point, named by its   *)
(* canonical path in the child's mount namespace, to the physical location *)
(* that is bound there.  The parent's namespace has no entry in w.mounts.  *)
(***************************************************************************)
Node(t, tgt, md) == [type |-> t, target |-> tgt, made |-> md]
NoTarget == RelP(<<>>)
Dir == Node("dir", NoTarget, FALSE)
File == Node("file", NoTarget, FALSE)
Other == Node("other", NoTarget, FALSE)
Symlink(tgt) == Node("symlink", tgt, FALSE)
MadeDir == Node("dir", NoTarget, TRUE)
MadeFile == Node("file", NoTarget, TRUE)
MadeSymlink(tgt) == Node("symlink", tgt, TRUE)

SetMax(S) == CHOOSE x \in S : \A y \in S : y <= x
\* the one member of a singleton set: The({e : x \in {v}}) is e, with x
\* naming the value of v
The(S) == CHOOSE x \in S : TRUE

\* the physical location a canonical namespace path names: the longest
\* visible mounted prefix is replaced by what is bound there
\* a mount is hidden while something mounted later on a directory above it
\* is in place; hidden_by names that later mount point
NotHidden == <<"">>
Visible(w, m) == m \in DOMAIN w.mounts /\ w.mounts[m].hidden_by = NotHidden
MountedPrefixes(w, ns) == {k \in 0..Len(ns) : Visible(w, SubSeq(ns, 1, k))}

Phys(w, ns) ==
    The({ IF ks = {} THEN ns
          ELSE w.mounts[SubSeq(ns, 1, SetMax(ks))].src
                   \o SubSeq(ns, SetMax(ks) + 1, Len(ns))
          : ks \in {MountedPrefixes(w, ns)} })

Present(w, ns) == Phys(w, ns) \in DOMAIN w.files
NodeAt(w, ns) == w.files[Phys(w, ns)]
TypeAt(w, ns) == IF Present(w, ns) THEN NodeAt(w, ns).type ELSE "none"

\* Kernel path lookup from the process root `root`: cur is the canonical
\* path reached so far, rest the components still to walk.  The final
\* component may be missing (err = "" and the path is not Present); a
\* missing or non-directory intermediate component is an error.
RECURSIVE Walk(_, _, _, _, _, _)
Walk(w, root, cur, rest, follow, fuel) ==
    IF rest = <<>> THEN [err |-> "", ns |-> cur]
    ELSE IF TypeAt(w, cur) # "dir" THEN
        [err |-> IF Present(w, cur) THEN "ENOTDIR" ELSE "ENOENT", ns |-> cur]
    ELSE The({
        IF ~Present(w, cand) THEN
            IF Len(rest) = 1 THEN [err |-> "", ns |-> cand]
            ELSE [err |-> "ENOENT", ns |-> cand]
        ELSE IF TypeAt(w, cand) = "symlink" /\ (Len(rest) > 1 \/ follow) THEN
            IF fuel = 0 THEN [err |-> "ELOOP", ns |-> cand]
            ELSE The({ Walk(w, root, IF t.abs THEN root ELSE cur,
                            t.parts \o Tail(rest), follow, fuel - 1)
                       : t \in {NodeAt(w, cand).target} })
        ELSE Walk(w, root, cand, Tail(rest), follow, fuel)
        : cand \in {Append(cur, Head(rest))} })

Lookup(w, root, p, follow) == Walk(w, root, root, p.parts, follow, MaxSymlinkHops)

\* Path::exists, is_dir (stat: follow), is_symlink, symlink_metadata (lstat)
exists(w, p) ==
    The({ r.err = "" /\ Present(w, r.ns) : r \in {Lookup(w, <<>>, p, TRUE)} })
is_dir(w, p) ==
    The({ r.err = "" /\ TypeAt(w, r.ns) = "dir" : r \in {Lookup(w, <<>>, p, TRUE)} })
lstat_type(w, p) ==
    The({ IF r.err = "" THEN TypeAt(w, r.ns) ELSE "none"
          : r \in {Lookup(w, <<>>, p, FALSE)} })
is_symlink(w, p) == lstat_type(w, p) = "symlink"
read_link(w, p) == NodeAt(w, Lookup(w, <<>>, p, FALSE).ns).target

\* fs::read_dir: the names directly under the directory p names
read_dir(w, p) ==
    The({ IF r.err = "" /\ TypeAt(w, r.ns) = "dir"
          THEN {Last(q) : q \in {q \in DOMAIN w.files :
                                     q # <<>> /\ Front(q) = Phys(w, r.ns)}}
          ELSE {}
          : r \in {Lookup(w, <<>>, p, TRUE)} })

\* every write returns the world after it and an error kind ("" on success)
Res(w, e) == [w |-> w, err |-> e]
PutNode(w, ns, n) == [w EXCEPT !.files = (Phys(w, ns) :> n) @@ @]

\* mkdir(2): does not follow a final symlink
mkdir(w, p) ==
    The({ IF r.err # "" THEN Res(w, r.err)
          ELSE IF Present(w, r.ns) THEN Res(w, "EEXIST")
          ELSE Res(PutNode(w, r.ns, MadeDir), "")
          : r \in {Lookup(w, <<>>, p, FALSE)} })

\* std::fs::create_dir_all
RECURSIVE create_dir_all(_, _)
create_dir_all(w, p) ==
    IF p.parts = <<>> /\ ~p.abs THEN Res(w, "")
    ELSE The({
        IF m.err = "" THEN m
        ELSE IF m.err # "ENOENT" THEN
            IF is_dir(w, p) THEN Res(w, "") ELSE m
        ELSE IF ~has_parent(p) THEN Res(w, "ENOENT")
        ELSE The({
            IF up.err # "" THEN up
            ELSE The({ IF m2.err = "" \/ ~is_dir(up.w, p) THEN m2
                       ELSE Res(up.w, "")
                       : m2 \in {mkdir(up.w, p)} })
            : up \in {create_dir_all(w, parent(p))} })
        : m \in {mkdir(w, p)} })

\* File::create: open(O_CREAT | O_TRUNC), follows a final symlink
file_create(w, p) ==
    The({ IF r.err # "" THEN Res(w, r.err)
          ELSE IF ~Present(w, r.ns) THEN Res(PutNode(w, r.ns, MadeFile), "")
          ELSE IF TypeAt(w, r.ns) = "dir" THEN Res(w, "EISDIR")
          ELSE Res(w, "")
          : r \in {Lookup(w, <<>>, p, TRUE)} })

\* symlink(2): the link path must not exist, its target is not looked at
make_symlink(w, target, link) ==
    The({ IF r.err # "" THEN Res(w, r.err)
          ELSE IF Present(w, r.ns) THEN Res(w, "EEXIST")
          ELSE Res(PutNode(w, r.ns, MadeSymlink(target)), "")
          : r \in {Lookup(w, <<>>, link, FALSE)} })

\* mount(2) with MS_BIND: both paths are followed and must exist, a
\* directory binds onto a directory and a non-directory onto a
\* non-directory; a source in w.refuse cannot be bound (EACCES)
sys_mount(w, source, dest, flags) ==
    The({ IF s.err # "" THEN Res(w, s.err)
          ELSE IF d.err # "" THEN Res(w, d.err)
          ELSE IF ~Present(w, s.ns) \/ ~Present(w, d.ns) THEN Res(w, "ENOENT")
          ELSE IF (TypeAt(w, s.ns) = "dir") # (TypeAt(w, d.ns) = "dir")
              THEN Res(w, "ENOTDIR")
          ELSE IF Phys(w, s.ns) \in w.refuse THEN Res(w, "EACCES")
          ELSE Res([w EXCEPT !.mounts =
                      (d.ns :> [src |-> Phys(w, s.ns), flags |-> flags,
                                hidden_by |-> NotHidden])
                      @@ [m \in DOMAIN @ |->
                            IF Visible(w, m) /\ m # d.ns /\ IsPrefix(d.ns, m)
                            THEN [@[m] EXCEPT !.hidden_by = d.ns] ELSE @[m]]], "")
          : s \in {Lookup(w, <<>>, source, TRUE)},
            d \in {Lookup(w, <<>>, dest, TRUE)} })

\* umount(2): the path must be a mount point with no mount beneath it
sys_umount(w, p) ==
    The({ IF r.err # "" THEN Res(w, r.err)
          ELSE IF ~Visible(w, r.ns) THEN Res(w, "EINVAL")
          ELSE IF \E m \in DOMAIN w.mounts :
                      m # r.ns /\ IsPrefix(r.ns, m) /\ Visible(w, m)
              THEN Res(w, "EBUSY")
          ELSE Res([w EXCEPT !.mounts =
                      [m \in DOMAIN @ \ {r.ns} |->
                         IF @[m].hidden_by = r.ns
                         THEN [@[m] EXCEPT !.hidden_by = NotHidden] ELSE @[m]]], "")
          : r \in {Lookup(w, <<>>, p, TRUE)} })

(***************************************************************************)
(* bind_mount (main.rs 26-41): a failed mount is logged, nothing else.     *)
(***************************************************************************)
BIND_REC_PRIVATE == {"MS_BIND", "MS_REC", "MS_PRIVATE"}
BIND_REC == {"MS_BIND", "MS_REC"}

\* a bind_mount that unwraps the mount's result instead of logging it
bind_mount_Unwrapped(w, source, dest) ==
    The({ IF m.err = "" THEN m.w ELSE [w EXCEPT !.panicked = TRUE]
          : m \in {sys_mount(w, source, dest, BIND_REC_PRIVATE)} })

bind_mount(w, source, dest) ==
    The({ IF m.err = "" THEN m.w ELSE [w EXCEPT !.failed = @ \cup {dest}]
          : m \in {sys_mount(w, source, dest, BIND_REC_PRIVATE)} })

Panic(w) == [w EXCEPT !.panicked = TRUE]
\* resolve_nix_path did not return: the recursion exhausts the stack
Overflow(w) == [w EXCEPT !.panicked = TRUE, !.overflow = TRUE]
ResolveFailed(w, r) == IF r.res = "diverge" THEN Overflow(w) ELSE Panic(w)

(***************************************************************************)
(* DirEntryOrExplicitMount (main.rs 54-118).                               *)
(***************************************************************************)
DirEntry(dir, name) ==
    [kind |-> "DirEntry", path |-> join(dir, RelP(<<name>>)),
     has_name |-> TRUE, name |-> name]
ExplicitMount(src, has, name) ==
    [kind |-> "ExplicitMount", path |-> src, has_name |-> has, name |-> name]
explicit_mount_with_dest_file_name(src, dst_file) ==
    IF has_file_name(dst_file) THEN ExplicitMount(src, TRUE, file_name(dst_file))
    ELSE ExplicitMount(src, FALSE, "")
\* rootdir.join(entry.file_name().unwrap_or_default())
MountPoint(self, entry) ==
    join(self.rootdir, RelP(IF entry.has_name THEN <<entry.name>> ELSE <<>>))
\* DirEntry::metadata and Path::symlink_metadata: neither follows a symlink
entry_metadata(w, entry) == lstat_type(w, entry.path)

RunChroot(rootdir, nixdir) == [rootdir |-> rootdir, nixdir |-> nixdir]
with_rootdir(self, rootdir) == [self EXCEPT !.rootdir = rootdir]

(***************************************************************************)
(* resolve_nix_path (main.rs 159-218).  res is "ok", "notfound" or         *)
(* "diverge" (the recursion was still running MaxResolveDepth calls deep). *)
(***************************************************************************)
RR(res, p) == [res |-> res, path |-> p]

\* a resolver that takes every link target as it is written
rebased_Verbatim(p, raw) == raw

\* 166-169: a relative link target is taken against the link's directory
rebased(p, raw) == IF ~is_absolute(raw) THEN join(parent(p), raw) ELSE raw

RECURSIVE resolve_nix_path(_, _, _, _, _)
RECURSIVE Peel(_, _, _, _, _, _, _)
resolve_nix_path(w, nixdir, p, stop_at_first_non_nix_path, depth) ==
    IF depth = 0 THEN RR("diverge", p)
    ELSE IF is_symlink(w, p) THEN
        The({ IF starts_with(target, NIX) THEN
                  resolve_nix_path(w, nixdir, join(nixdir, strip_prefix(target, NIX)),
                                   stop_at_first_non_nix_path, depth - 1)
              ELSE IF stop_at_first_non_nix_path THEN RR("ok", target)
              ELSE resolve_nix_path(w, nixdir, target,
                                    stop_at_first_non_nix_path, depth - 1)
              : target \in {rebased(p, read_link(w, p))} })
    ELSE IF exists(w, p) THEN RR("ok", p)
    ELSE Peel(w, nixdir, p, stop_at_first_non_nix_path, depth, p, 0)

\* a resolver that gives up as soon as the path does not exist
Peel_GivesUp(w, nixdir, p, stop, depth, path, i) == RR("notfound", p)

\* the `while path.pop()` loop: path has lost i trailing components of p
Peel(w, nixdir, p, stop, depth, path, i) ==
    IF ~has_parent(path) THEN RR("notfound", p)
    ELSE IF is_symlink(w, parent(path))
            /\ starts_with(read_link(w, parent(path)), NIX) THEN
        The({ IF actual_parent.res # "ok" THEN actual_parent
              ELSE resolve_nix_path(
                       w, nixdir,
                       join(actual_parent.path,
                            RelP(SubSeq(p.parts, Len(p.parts) - i, Len(p.parts)))),
                       stop, depth - 1)
              : actual_parent \in
                    {resolve_nix_path(w, nixdir, parent(path), stop, depth - 1)} })
    ELSE Peel(w, nixdir, p, stop, depth, parent(path), i + 1)

(***************************************************************************)
(* The mirror engine (main.rs 221-345).                                    *)
(***************************************************************************)
RECURSIVE bind_mount_entry(_, _, _)
RECURSIVE bind_mount_directory(_, _, _)
RECURSIVE MirrorChildren(_, _, _, _)

\* `for entry in dir { child.bind_mount_entry(&entry) }` over the names
\* read_dir listed; the names of one directory are distinct destinations
MirrorChildren(w, child, dir, names) ==
    IF names = {} \/ w.panicked THEN w
    ELSE The({ MirrorChildren(bind_mount_entry(w, child, DirEntry(dir, n)),
                              child, dir, names \ {n})
               : n \in {CHOOSE x \in names : TRUE} })

\* a bind_mount_directory that binds the source over a destination that
\* already exists instead of recursing into it
bind_mount_directory_Over(w, self, entry) ==
    IF ~exists(w, MountPoint(self, entry)) THEN
        The({ IF c.err \notin {"", "EEXIST"} THEN Panic(w)
              ELSE bind_mount(c.w, entry.path, MountPoint(self, entry))
              : c \in {mkdir(w, MountPoint(self, entry))} })
    ELSE IF is_dir(w, MountPoint(self, entry)) THEN
        bind_mount(w, entry.path, MountPoint(self, entry))
    ELSE w

bind_mount_directory(w, self, entry) ==
    IF ~exists(w, MountPoint(self, entry)) THEN
        The({ IF c.err \notin {"", "EEXIST"} THEN Panic(w)
              ELSE bind_mount(c.w, entry.path, MountPoint(self, entry))
              : c \in {mkdir(w, MountPoint(self, entry))} })
    ELSE IF is_dir(w, MountPoint(self, entry)) THEN
        IF ~is_dir(w, entry.path) THEN Panic(w)
        ELSE MirrorChildren(w, with_rootdir(self, MountPoint(self, entry)),
                            entry.path, read_dir(w, entry.path))
    ELSE w

\* a bind_mount_file that binds the source on a destination that exists
bind_mount_file_Over(w, self, entry) ==
    IF exists(w, MountPoint(self, entry))
    THEN bind_mount(w, entry.path, MountPoint(self, entry))
    ELSE The({ IF c.err # "" THEN Panic(w)
               ELSE bind_mount(c.w, entry.path, MountPoint(self, entry))
               : c \in {file_create(w, MountPoint(self, entry))} })

bind_mount_file(w, self, entry) ==
    IF exists(w, MountPoint(self, entry)) THEN w
    ELSE The({ IF c.err # "" THEN Panic(w)
               ELSE bind_mount(c.w, entry.path, MountPoint(self, entry))
               : c \in {file_create(w, MountPoint(self, entry))} })

\* 293-302: symlink(target, link_path), unwrapped
symlink_to(w, target, link_path) ==
    IF target.res # "ok" THEN ResolveFailed(w, target)
    ELSE The({ IF c.err # "" THEN Panic(w) ELSE c.w
               : c \in {make_symlink(w, target.path, link_path)} })

\* a mirror_symlink that copies the link target as it is written
mirror_symlink_Raw(w, self, entry) ==
    IF exists(w, MountPoint(self, entry)) THEN w
    ELSE symlink_to(w, RR("ok", read_link(w, entry.path)), MountPoint(self, entry))

mirror_symlink(w, self, entry) ==
    IF exists(w, MountPoint(self, entry)) THEN w
    ELSE symlink_to(w, resolve_nix_path(w, self.nixdir, entry.path, TRUE,
                                        MaxResolveDepth),
                    MountPoint(self, entry))

\* 313-329: an entry whose path begins with /nix is resolved and becomes an
\* explicit mount that keeps the entry's destination file name
adjusted(w, self, entry) ==
    IF ~starts_with(entry.path, NIX) THEN [res |-> "ok", entry |-> entry]
    ELSE The({ [res |-> adj_path.res,
                entry |-> ExplicitMount(adj_path.path, entry.has_name, entry.name)]
               : adj_path \in {resolve_nix_path(w, self.nixdir, entry.path, TRUE,
                                                MaxResolveDepth)} })

bind_mount_entry(w, self, entry0) ==
    IF w.panicked THEN w
    ELSE The({
        IF adj.res # "ok" THEN ResolveFailed(w, adj)
        ELSE The({
            IF stat = "none" THEN Panic(w)
            ELSE IF stat = "dir" THEN bind_mount_directory(w, self, adj.entry)
            ELSE IF stat = "file" \/ adj.entry.path = DEV_NULL
                THEN bind_mount_file(w, self, adj.entry)
            ELSE IF stat = "symlink" THEN mirror_symlink(w, self, adj.entry)
            ELSE Panic(w)
            : stat \in {entry_metadata(w, adj.entry)} })
        : adj \in {adjusted(w, self, entry0)} })

(***************************************************************************)
(* The state of one run.                                                   *)
(***************************************************************************)
VARIABLES
    input,          \* what the run is given: argv, host files, policy file, faults
    world,          \* the filesystem and the child's mount table
    ppc,            \* where the parent is: main's steps, the wait loop, the end
    rootdir,        \* main: the scratch root mkdtemp returned
    nixdir,         \* main: the canonicalised store directory
    path_config,    \* main: the parsed policy, or present = FALSE
    exit_status,    \* wait_for_child: the status to exit with
    parentEnd,      \* how the parent process ended
    parentStopped,  \* the parent is stopped by a job-control signal
    cpc,            \* where the child is in run_chroot
    child,          \* the child's process state as waitpid reports it
    stopPending,    \* a stop of the child that waitpid has not yet reported
    reaped,         \* waitpid has returned the child's termination
    stops,          \* stop signals delivered so far
    lastWait,       \* what the last waitpid call returned
    cwd,            \* run_chroot: the captured working directory
    ids,            \* run_chroot: the captured uid and gid
    profile_dir,    \* run_chroot: the resolved profile directory
    todo,           \* run_chroot: what each loop has still to visit
    chroot,         \* the child's root directory (canonical path)
    idfiles,        \* the writes made to /proc/self/{setgroups,uid_map,gid_map}
    mirrored,       \* the host root entries the default pass has mirrored
    environ,        \* the environment of the child process
    trace           \* the construction steps the child has performed, in order

vars == <<input, world, ppc, rootdir, nixdir, path_config, exit_status, parentEnd,
          parentStopped, cpc, child, stopPending, reaped, stops, lastWait, cwd, ids,
          profile_dir, todo, chroot, idfiles, mirrored, environ, trace>>

parentVars == <<ppc, rootdir, nixdir, path_config, exit_status, parentEnd,
                parentStopped, lastWait>>
childVars == <<cpc, cwd, ids, profile_dir, todo, chroot, idfiles, mirrored, environ,
              trace>>
procVars == <<child, stopPending, reaped, stops>>

Signals == {"SIGKILL", "SIGTERM", "SIGINT"}
SIGSTOP == "SIGSTOP"

TMP == AbsP(<<"tmp">>)
TEMPLATE == "nix-chroot.XXXXXX"
NoPath == RelP(<<>>)

Running == [tag |-> "Running", status |-> 0, sig |-> ""]
Stopped(sig) == [tag |-> "Stopped", status |-> 0, sig |-> sig]
Exited(n) == [tag |-> "Exited", status |-> n, sig |-> ""]
Signaled(sig) == [tag |-> "Signaled", status |-> 0, sig |-> sig]
WaitErr(e) == [tag |-> "Err", status |-> 0, sig |-> e]
NotForked == [tag |-> "None", status |-> 0, sig |-> ""]

NotEnded == [kind |-> "running", status |-> 0, sig |-> ""]
ProcessExit(n) == [kind |-> "exit", status |-> n, sig |-> ""]
KilledBy(sig) == [kind |-> "signal", status |-> 0, sig |-> sig]
\* a Rust panic unwinds out of main: the process ends with the runtime's
\* panic status, which is none of the statuses the program passes to exit
Panicked == [kind |-> "panic", status |-> 101, sig |-> ""]

NoTodo == [profile |-> {}, excludes |-> {}, absolute |-> {}, root |-> {}, umount |-> {}]

(***************************************************************************)
(* The runs explored: a host filesystem, a store, a policy file, the       *)
(* faults the environment injects and the signals the invoker ignores.     *)
(***************************************************************************)
Prefixes(q) == {SubSeq(q, 1, k) : k \in 0..Len(q) - 1}
\* the files of `leaves` with every directory above them
Tree(leaves) ==
    LET dirs == UNION {Prefixes(q) : q \in DOMAIN leaves} \ DOMAIN leaves
    IN  leaves @@ [d \in dirs |-> Dir]

STORE == <<"s">>
CONFIG_FILE == <<"etc", "nix-user-chroot", "path-config.toml">>
OGL_DIR == <<"var", "nix", "opengl-driver", "lib">>
\* the driver directory mounted under another name
OGL_MOUNT_Lib64 == <<"run", "opengl-driver", "lib64">>
OGL_MOUNT == <<"run", "opengl-driver", "lib">>
PER_USER == <<"var", "nix", "profiles", "per-user">>

HostBase ==
    (<<"etc", "hostname">> :> File) @@ (<<"etc", "group">> :> File)
    @@ (<<"dev", "null">> :> Other)
    @@ (<<"tmp", "override">> :> File)
    @@ (<<"cfg">> :> Symlink(RelP(<<"etc">>)))
    @@ (STORE \o <<"store", "prof", "share", "data">> :> File)
StoreProfile ==
    (STORE \o PER_USER \o <<"u", "profile">> :> Symlink(AbsP(<<"nix", "store", "prof">>)))
\* a profile link that leads to itself through /nix
StoreProfileLoop ==
    (STORE \o PER_USER \o <<"u", "profile">>
        :> Symlink(AbsP(<<"nix">> \o PER_USER \o <<"u", "profile">>)))
StoreOgl == (STORE \o OGL_DIR :> Dir)
HostNix == (<<"nix", "store">> :> Dir)
HostSocket == (<<"sock">> :> Other)
HostNixLink == (<<"lnk">> :> Symlink(AbsP(<<"nix", "store">>)))
HostDeadNixLink == (<<"lnk">> :> Symlink(AbsP(<<"nix", "gone">>)))
\* symlinks outside /nix: an absolute target at the root, a relative one in /etc
HostLinks ==
    (<<"abslnk">> :> Symlink(AbsP(<<"etc", "hostname">>)))
    @@ (<<"etc", "rel">> :> Symlink(RelP(<<"hostname">>)))
\* host symlinks into /nix whose store counterpart is itself a symlink (to
\* another /nix path, or out of the store) or lies behind a symlinked directory
HostNixChains ==
    (<<"plnk">> :> Symlink(AbsP(<<"nix">> \o PER_USER \o <<"u", "profile">>)))
    @@ (<<"olnk">> :> Symlink(AbsP(<<"nix", "out">>)))
    @@ (STORE \o <<"out">> :> Symlink(AbsP(<<"etc">>)))
    @@ (<<"dl">> :> Symlink(AbsP(<<"nix", "a", "data">>)))
    @@ (STORE \o <<"a">> :> Symlink(AbsP(<<"nix", "store", "prof", "share">>)))
ConfigFile == (STORE \o CONFIG_FILE :> File)

Mount(src, dst) == [src |-> src, dst |-> dst]
Policy(ex, prof, abso) ==
    [present |-> TRUE, valid |-> TRUE, excludes |-> ex, profile |-> prof, absolute |-> abso]
NoPolicy == [present |-> FALSE, valid |-> TRUE, excludes |-> {}, profile |-> {},
             absolute |-> {}]
BadPolicy == [NoPolicy EXCEPT !.present = TRUE, !.valid = FALSE]

ETC_HOSTNAME == AbsP(<<"etc", "hostname">>)
ETC_GROUP == AbsP(<<"etc", "group">>)
OVERRIDE == AbsP(<<"tmp", "override">>)
OPT == AbsP(<<"opt">>)

Policies ==
    { Policy({ETC_HOSTNAME}, {}, {}),
      Policy({}, {}, {Mount(OVERRIDE, ETC_GROUP)}),
      Policy({ETC_HOSTNAME}, {}, {Mount(OVERRIDE, ETC_GROUP)}),
      Policy({}, {Mount(RelP(<<"share">>), OPT)}, {}),
      Policy({OPT}, {Mount(AbsP(<<"share">>), OPT)}, {}),
      Policy({}, {}, {Mount(OVERRIDE, ETC_GROUP), Mount(ETC_HOSTNAME, ETC_GROUP)}),
      Policy({}, {}, {Mount(OVERRIDE, AbsP(<<"cfg", "group">>))}),
      Policy({ETC_GROUP}, {}, {Mount(OVERRIDE, ETC_GROUP)}),
      Policy({}, {}, {Mount(OVERRIDE, RelP(<<"etc", "group">>))}),
      Policy({AbsP(<<"etc">>)}, {}, {}),
      Policy({AbsP(<<"opt", "new">>)}, {Mount(RelP(<<"share">>), OPT)}, {}),
      Policy({AbsP(<<"opt", "data">>)}, {Mount(RelP(<<"share">>), OPT)}, {}),
      Policy({AbsP(<<"etc">>)}, {}, {Mount(OVERRIDE, ETC_GROUP)}),
      Policy({AbsP(<<"cfg", "hostname">>)}, {}, {}),
      Policy({AbsP(<<>>)}, {}, {}),
      Policy({}, {}, {Mount(AbsP(<<"etc">>), OPT)}),
      Policy({}, {}, {Mount(AbsP(<<"cfg">>), OPT)}),
      Policy({}, {}, {Mount(AbsP(<<"etc">>), AbsP(<<"etc">>)),
                      Mount(OVERRIDE, ETC_GROUP)}),
      Policy({}, {}, {Mount(AbsP(<<"missing">>), OPT)}),
      Policy({}, {}, {Mount(OVERRIDE, AbsP(<<"nix", "override">>))}),
      Policy({NIX}, {}, {}) }

Run(leaves, config, refuse, fault, ignored) ==
    [argc_ok |-> fault # "usage",
     store_arg |-> IF fault = "canonicalize" THEN AbsP(<<"missing">>) ELSE AbsP(STORE),
     files |-> Tree(IF config.present THEN leaves @@ ConfigFile ELSE leaves),
     config |-> config, refuse |-> refuse, fault |-> fault, ignored |-> ignored,
     cwd |-> AbsP(<<"etc">>), uid |-> 1000, gid |-> 100, user |-> "u",
     env |-> ("PATH" :> "/usr/bin") @@ ("HOME" :> "/home/u")]
\* the same run invoked with other environment variables
WithEnv(run, env) == [run EXCEPT !.env = env]
Envs ==
    { ("PATH" :> "/usr/bin") @@ ("NIX_CONF_DIR" :> "/etc/nix"),
      ("NIX_CONF_DIR" :> "/nix/etc/nix") @@ ("LANG" :> "C"),
      <<>> }

Faults == {"usage", "mkdtemp", "canonicalize", "fork", "unshare", "store_mount",
           "chroot", "setgroups", "uid_map", "gid_map", "exec", "remove"}

Hosts ==
    { HostBase @@ StoreProfile @@ HostNix,
      HostBase @@ StoreProfile @@ HostSocket,
      HostBase @@ StoreProfile @@ HostNixLink,
      HostBase @@ StoreProfile @@ HostDeadNixLink,
      HostBase @@ StoreProfile @@ StoreOgl,
      HostBase @@ StoreOgl @@ (<<"run", "initctl">> :> Other),
      HostBase @@ StoreOgl @@ (<<"run", "lock", "f">> :> File),
      HostBase }

Runs ==
    {Run(HostBase @@ StoreProfile, c, {}, "none", {}) : c \in Policies \cup {NoPolicy}}
    \cup {Run(h, NoPolicy, {}, "none", {}) : h \in Hosts}
    \cup {Run(HostBase @@ StoreProfile,
              Policy({ETC_HOSTNAME}, {}, {Mount(OVERRIDE, ETC_GROUP)}), {r}, "none", {}) :
            r \in {<<"etc">>, <<"dev", "null">>, <<"tmp", "override">>}}
    \cup {Run(HostBase @@ StoreProfile, NoPolicy, {<<"etc">>}, "none", {})}
    \cup {Run(h, Policy({ETC_HOSTNAME}, {Mount(RelP(<<"share">>), OPT)},
                         {Mount(OVERRIDE, ETC_GROUP)}), {}, "none", {}) :
            h \in {HostBase, HostBase @@ StoreProfileLoop}}
    \cup {Run(HostBase @@ StoreProfile @@ StoreOgl, NoPolicy, {STORE \o OGL_DIR}, "none", {})}
    \cup {Run(HostBase @@ StoreProfile @@ HostNixChains, NoPolicy, {}, "none", {}),
          Run(HostBase @@ StoreProfile @@ HostNix @@ HostNixLink, NoPolicy, {}, "none", {})}
    \cup {Run(HostBase @@ StoreProfile @@ HostLinks, c, {}, "none", {}) :
            c \in {NoPolicy, Policy({}, {}, {Mount(OVERRIDE, ETC_GROUP)})}}
    \cup {Run(HostBase @@ StoreProfile @@ StoreOgl, Policy({AbsP(OGL_MOUNT)}, {}, {}), {}, "none", {}),
          Run(HostBase @@ StoreProfile @@ StoreOgl,
              Policy({AbsP(OGL_MOUNT \o <<"new">>)}, {}, {}), {}, "none", {}),
          Run(HostBase @@ StoreProfile @@ HostSocket,
              Policy({}, {}, {Mount(AbsP(<<"sock">>), OPT)}), {}, "none", {})}
    \cup {Run(HostBase @@ StoreProfile, Policy({ETC_HOSTNAME}, {}, {}), {}, f, {}) :
            f \in Faults}
    \cup {WithEnv(Run(HostBase @@ StoreProfile, NoPolicy, {}, "none", {}), e) : e \in Envs}
    \cup {Run(HostBase @@ StoreProfile, BadPolicy, {}, "none", {}),
          Run(HostBase @@ StoreProfile, NoPolicy, {}, "none", {"SIGINT"})}

Init ==
    /\ input \in Runs
    /\ world = [files |-> input.files, mounts |-> <<>>, refuse |-> input.refuse,
                failed |-> {}, panicked |-> FALSE, overflow |-> FALSE]
    /\ ppc = "main"
    /\ rootdir = NoPath
    /\ nixdir = NoPath
    /\ path_config = NoPolicy
    /\ exit_status = 0
    /\ parentEnd = NotEnded
    /\ parentStopped = FALSE
    /\ cpc = "none"
    /\ child = NotForked
    /\ stopPending = FALSE
    /\ reaped = FALSE
    /\ stops = 0
    /\ lastWait = NotForked
    /\ cwd = NoPath
    /\ ids = [uid |-> 0, gid |-> 0]
    /\ profile_dir = RR("notfound", NoPath)
    /\ todo = NoTodo
    /\ chroot = <<>>
    /\ idfiles = [setgroups |-> <<>>, uid_map |-> <<>>, gid_map |-> <<>>]
    /\ mirrored = {}
    /\ environ = input.env
    /\ trace = <<>>

(***************************************************************************)
(* The parent: main (main.rs 562-599).                                     *)
(***************************************************************************)
ParentEnds(how) ==
    /\ ppc' = "ended"
    /\ parentEnd' = how

\* args.len() < 3 prints the usage and exits 1; otherwise mkdtemp
MainArgs ==
    /\ ppc = "main"
    /\ IF ~input.argc_ok THEN
           ParentEnds(ProcessExit(1)) /\ UNCHANGED <<world, rootdir>>
       ELSE IF input.fault = "mkdtemp" \/ ~is_dir(world, TMP) THEN
           ParentEnds(Panicked) /\ UNCHANGED <<world, rootdir>>
       ELSE /\ rootdir' = join(TMP, RelP(<<TEMPLATE>>))
            /\ world' = PutNode(world, Append(TMP.parts, TEMPLATE), MadeDir)
            /\ ppc' = "canonicalize"
            /\ UNCHANGED parentEnd
    /\ UNCHANGED <<input, nixdir, path_config, exit_status, parentStopped, lastWait>>
    /\ UNCHANGED <<childVars, procVars>>

\* fs::canonicalize(&args[1]), a panic when the path does not resolve
MainCanonicalize ==
    /\ ppc = "canonicalize"
    /\ \E r \in {Lookup(world, <<>>, input.store_arg, TRUE)} :
           IF r.err = "" /\ Present(world, r.ns)
           THEN nixdir' = AbsP(r.ns) /\ ppc' = "load_config" /\ UNCHANGED parentEnd
           ELSE ParentEnds(Panicked) /\ UNCHANGED nixdir
    /\ UNCHANGED <<input, world, rootdir, path_config, exit_status, parentStopped,
                   lastWait>>
    /\ UNCHANGED <<childVars, procVars>>

\* the policy file is read and parsed when it exists; both are unwrapped
MainLoadConfig ==
    /\ ppc = "load_config"
    /\ IF ~exists(world, join(nixdir, RelP(CONFIG_FILE))) THEN
           path_config' = NoPolicy /\ ppc' = "fork" /\ UNCHANGED parentEnd
       ELSE IF input.config.valid THEN
           path_config' = input.config /\ ppc' = "fork" /\ UNCHANGED parentEnd
       ELSE ParentEnds(Panicked) /\ UNCHANGED path_config
    /\ UNCHANGED <<input, world, rootdir, nixdir, exit_status, parentStopped, lastWait>>
    /\ UNCHANGED <<childVars, procVars>>

\* fork: the parent enters wait_for_child (exit_status = 1), the child
\* run_chroot; a failed fork is reported and main returns
MainFork ==
    /\ ppc = "fork"
    /\ IF input.fault = "fork" THEN
           /\ ParentEnds(ProcessExit(0))
           /\ UNCHANGED <<exit_status, cpc, child>>
       ELSE /\ ppc' = "wait"
            /\ exit_status' = 1
            /\ cpc' = "start"
            /\ child' = Running
            /\ UNCHANGED parentEnd
    /\ UNCHANGED <<input, world, rootdir, nixdir, path_config, parentStopped, lastWait>>
    /\ UNCHANGED <<cwd, ids, profile_dir, todo, chroot, idfiles, mirrored, trace>>
    /\ UNCHANGED <<stopPending, reaped, stops, environ>>

(***************************************************************************)
(* The parent: wait_for_child (main.rs 528-560).                           *)
(***************************************************************************)
\* waitpid(child_pid, WUNTRACED): blocks until the child has a state change
\* to report; ECHILD once the child has been reaped
WaitReady ==
    \/ reaped
    \/ child.tag \in {"Exited", "Signaled"}
    \/ child.tag = "Stopped" /\ stopPending
waitpid == IF reaped THEN WaitErr("ECHILD") ELSE child

\* the match of 531-553 with an Exited arm that leaves exit_status alone
MatchWait_KeepsExitStatus(ws) ==
    LET stay == [pc |-> "wait", exit_status |-> exit_status, end |-> NotEnded,
                 stopped |-> FALSE]
    IN  CASE ws.tag = "Signaled" /\ ws.sig = SIGSTOP ->
                 [stay EXCEPT !.pc = "cont_child", !.stopped = TRUE]
          [] ws.tag = "Signaled" /\ ws.sig # SIGSTOP ->
                 IF ws.sig \in input.ignored THEN stay
                 ELSE [stay EXCEPT !.pc = "ended", !.end = KilledBy(ws.sig)]
          [] OTHER -> [stay EXCEPT !.pc = "cleanup"]

\* 531-553: the match on waitpid's result, as the parent's next position
\* (pc), exit_status, end and stopped flag
MatchWait(ws) ==
    LET stay == [pc |-> "wait", exit_status |-> exit_status, end |-> NotEnded,
                 stopped |-> FALSE]
    IN  CASE ws.tag = "Signaled" /\ ws.sig = SIGSTOP ->
                 \* kill(getpid(), SIGSTOP); kill(child, SIGCONT) runs once
                 \* the parent is continued
                 [stay EXCEPT !.pc = "cont_child", !.stopped = TRUE]
          [] ws.tag = "Signaled" /\ ws.sig # SIGSTOP ->
                 \* kill(getpid(), signal): nothing happens when the parent
                 \* ignores or blocks the signal
                 IF ws.sig \in input.ignored THEN stay
                 ELSE [stay EXCEPT !.pc = "ended", !.end = KilledBy(ws.sig)]
          [] ws.tag = "Exited" ->
                 [stay EXCEPT !.pc = "cleanup", !.exit_status = ws.status]
          [] OTHER -> [stay EXCEPT !.pc = "cleanup"]

\* one turn of the loop
WaitForChild ==
    /\ ppc = "wait"
    /\ ~parentStopped
    /\ WaitReady
    /\ LET ws == waitpid
           m == MatchWait(ws)
       IN  /\ lastWait' = ws
           /\ reaped' = (reaped \/ ws.tag \in {"Exited", "Signaled"})
           /\ stopPending' = (stopPending /\ ws.tag # "Stopped")
           /\ ppc' = m.pc
           /\ exit_status' = m.exit_status
           /\ parentEnd' = m.end
           /\ parentStopped' = m.stopped
    /\ UNCHANGED <<input, world, rootdir, nixdir, path_config>>
    /\ UNCHANGED <<childVars, child, stops>>

Under(prefix, q) == IsPrefix(prefix, q)
\* fs::remove_dir_all in the parent's namespace: the scratch root and all
\* beneath it are unlinked
remove_dir_all(w, dir) ==
    [w EXCEPT !.files = [q \in {q \in DOMAIN @ : ~Under(dir.parts, q)} |-> @[q]],
              !.mounts = [m \in {m \in DOMAIN @ : ~Under(dir.parts, m)} |-> @[m]]]

\* after the loop: remove the scratch root (a panic when that fails), exit
ParentCleanup ==
    /\ ppc = "cleanup"
    /\ ~parentStopped
    /\ IF input.fault = "remove"
       THEN ParentEnds(Panicked) /\ UNCHANGED world
       ELSE ParentEnds(ProcessExit(exit_status)) /\ world' = remove_dir_all(world, rootdir)
    /\ UNCHANGED <<input, rootdir, nixdir, path_config, exit_status, parentStopped,
                   lastWait>>
    /\ UNCHANGED <<childVars, procVars>>

\* a job-control stop delivered to the parent while it waits
EnvStopParent ==
    /\ ppc = "wait"
    /\ ~parentStopped
    /\ stops < MaxStops
    /\ parentStopped' = TRUE
    /\ stops' = stops + 1
    /\ UNCHANGED <<input, world, ppc, rootdir, nixdir, path_config, exit_status,
                   parentEnd, lastWait>>
    /\ UNCHANGED <<childVars, child, stopPending, reaped>>

\* SIGCONT delivered to the parent: it resumes where it stopped
EnvContParent ==
    /\ parentStopped
    /\ parentStopped' = FALSE
    /\ IF ppc = "cont_child"
       THEN /\ ppc' = "wait"
            /\ child' = IF child.tag = "Stopped" THEN Running ELSE child
       ELSE UNCHANGED <<ppc, child>>
    /\ UNCHANGED <<input, world, rootdir, nixdir, path_config, exit_status, parentEnd,
                   lastWait>>
    /\ UNCHANGED <<childVars, stopPending, reaped, stops>>

(***************************************************************************)
(* The child: RunChroot::run_chroot (main.rs 347-525), one action per      *)
(* step and per loop turn.                                                 *)
(***************************************************************************)
\* the child's mount namespace goes away with the child
EndChild(w) == [w EXCEPT !.mounts = <<>>]
\* a panic ends the child with the runtime's panic status, a stack
\* overflow aborts it; cpc keeps the step the child ended in
ChildStep(w, nextpc, steps) ==
    IF w.overflow THEN
        /\ child' = Signaled("SIGABRT")
        /\ world' = EndChild(w) /\ UNCHANGED <<cpc, trace>>
    ELSE IF w.panicked THEN
        /\ child' = Exited(101)
        /\ world' = EndChild(w) /\ UNCHANGED <<cpc, trace>>
    ELSE /\ cpc' = nextpc /\ UNCHANGED child
         /\ world' = w /\ trace' = trace \o steps
Self == RunChroot(rootdir, nixdir)
ChildRuns(pc) == cpc = pc /\ child = Running

\* 348-353: capture cwd, uid and gid, then unshare(NEWNS | NEWUSER)
ChildUnshare ==
    /\ ChildRuns("start")
    /\ cwd' = input.cwd
    /\ ids' = [uid |-> input.uid, gid |-> input.gid]
    /\ IF input.fault = "unshare"
       THEN ChildStep(Panic(world), "ogl", <<>>)
       ELSE ChildStep(world, "ogl", <<"cwd", "ids", "unshare">>)
    /\ UNCHANGED <<input, parentVars, profile_dir, todo, chroot, idfiles, mirrored>>
    /\ UNCHANGED <<stopPending, reaped, stops, environ>>

\* 355-363: <store>/var/nix/opengl-driver/lib onto <scratch>/run/opengl-driver/lib
ChildOpenGL ==
    /\ ChildRuns("ogl")
    /\ IF ~is_dir(world, join(nixdir, RelP(OGL_DIR)))
       THEN ChildStep(world, "policy", <<>>)
       ELSE \E made \in {create_dir_all(world, join(rootdir, RelP(OGL_MOUNT)))} :
              IF made.err # "" THEN ChildStep(Panic(world), "policy", <<>>)
              ELSE ChildStep(bind_mount(made.w, join(nixdir, RelP(OGL_DIR)),
                                        join(rootdir, RelP(OGL_MOUNT))),
                             "policy", <<"ogl">>)
    /\ UNCHANGED <<input, parentVars, cwd, ids, profile_dir, todo, chroot, idfiles,
                   mirrored>>
    /\ UNCHANGED <<stopPending, reaped, stops, environ>>

\* 369-376: with a policy, resolve the user's profile directory
ChildProfileDir ==
    /\ ChildRuns("policy")
    /\ IF ~path_config.present THEN
           /\ ChildStep(world, "mounts", <<>>)
           /\ UNCHANGED <<profile_dir, todo>>
       ELSE \E r \in {resolve_nix_path(
                          world, nixdir,
                          join(nixdir, RelP(PER_USER \o <<input.user, "profile">>)),
                          FALSE, MaxResolveDepth)} :
              /\ profile_dir' = r
              /\ todo' = [todo EXCEPT !.profile = path_config.profile,
                                      !.excludes = path_config.excludes,
                                      !.absolute = path_config.absolute]
              /\ IF r.res = "diverge"
                 THEN ChildStep(Overflow(world), "mounts", <<>>)
                 ELSE ChildStep(world, "mounts", <<>>)
    /\ UNCHANGED <<input, parentVars, cwd, ids, chroot, idfiles, mirrored>>
    /\ UNCHANGED <<stopPending, reaped, stops, environ>>

\* 378-419: the chained iterator yields the profile mounts, then the
\* exclude placeholders, then the absolute mounts; each map in any order
NextExplicit ==
    IF todo.profile # {} THEN {[kind |-> "profile", m |-> m] : m \in todo.profile}
    ELSE IF todo.excludes # {}
        THEN {[kind |-> "exclude", m |-> Mount(DEV_NULL, ex)] : ex \in todo.excludes}
    ELSE {[kind |-> "absolute", m |-> m] : m \in todo.absolute}
Taken(item) ==
    IF item.kind = "profile" THEN [todo EXCEPT !.profile = @ \ {item.m}]
    ELSE IF item.kind = "exclude" THEN [todo EXCEPT !.excludes = @ \ {item.m.dst}]
    ELSE [todo EXCEPT !.absolute = @ \ {item.m}]
\* the source the iterator yields for an item
ExplicitSrc(item) ==
    IF item.kind = "profile"
    THEN join(profile_dir.path,
              IF is_absolute(item.m.src) THEN strip_prefix(item.m.src, AbsP(<<>>))
              ELSE item.m.src)
    ELSE item.m.src

\* 421-445: the body of `for (src, dest) in explicit_mounts`
\* 425-430: dest.strip_prefix("/").parent(), or the empty path
adjusted_dest(dest) ==
    IF has_parent(strip_prefix(dest, AbsP(<<>>)))
    THEN parent(strip_prefix(dest, AbsP(<<>>))) ELSE RelP(<<>>)
\* 431-438: create the destination's parent and mirror into it
mount_under(w, self, src, dest, par) ==
    The({ IF made.err # "" THEN Panic(w)
          ELSE bind_mount_entry(made.w, with_rootdir(self, par),
                                explicit_mount_with_dest_file_name(src, dest))
          : made \in {create_dir_all(w, par)} })
explicit_mount(w, self, src, dest) ==
    The({ IF r.res = "diverge" THEN Overflow(w)
          ELSE IF r.res # "ok" THEN w
          ELSE mount_under(w, self, r.path, dest,
                           join(self.rootdir, adjusted_dest(dest)))
          : r \in {resolve_nix_path(w, self.nixdir, src, TRUE, MaxResolveDepth)} })

ChildExplicitMount ==
    /\ ChildRuns("mounts")
    /\ \E item \in NextExplicit :
         /\ todo' = Taken(item)
         /\ IF item.kind = "profile" /\ profile_dir.res # "ok" THEN
                ChildStep(world, "mounts", <<>>)
            ELSE IF item.kind = "absolute" /\ ~is_absolute(item.m.src) THEN
                ChildStep(Panic(world), "mounts", <<>>)
            ELSE IF ~is_absolute(item.m.dst) THEN
                ChildStep(Panic(world), "mounts", <<>>)
            ELSE ChildStep(explicit_mount(world, Self, ExplicitSrc(item), item.m.dst),
                           "mounts", <<item.kind>>)
    /\ UNCHANGED <<input, parentVars, cwd, ids, profile_dir, chroot, idfiles, mirrored>>
    /\ UNCHANGED <<stopPending, reaped, stops, environ>>

\* 448-450: list the host's / once the explicit mounts are done
ChildListRoot ==
    /\ ChildRuns("mounts")
    /\ NextExplicit = {}
    /\ todo' = [todo EXCEPT !.root = read_dir(world, AbsP(<<>>))]
    /\ ChildStep(world, "mirror", <<>>)
    /\ UNCHANGED <<input, parentVars, cwd, ids, profile_dir, chroot, idfiles, mirrored>>
    /\ UNCHANGED <<stopPending, reaped, stops, environ>>

\* a default pass that skips no entry of /
SkipNothing(name) == FALSE

\* the entry of / named `nix` is not mirrored
SkipEntry(name) == name = "nix"

\* 451-458: one turn of the loop over the entries of /
ChildMirrorRoot ==
    /\ ChildRuns("mirror")
    /\ \E name \in todo.root :
         /\ todo' = [todo EXCEPT !.root = @ \ {name},
                                 !.umount = IF todo.root = {name}
                                            THEN path_config.excludes ELSE @]
         /\ IF SkipEntry(name) THEN
                /\ ChildStep(world, IF todo.root = {name} THEN "umount" ELSE "mirror",
                             <<>>)
                /\ UNCHANGED mirrored
            ELSE /\ ChildStep(bind_mount_entry(world, Self, DirEntry(AbsP(<<>>), name)),
                              IF todo.root = {name} THEN "umount" ELSE "mirror",
                              <<"mirror">>)
                 /\ mirrored' = mirrored \cup {name}
    /\ UNCHANGED <<input, parentVars, cwd, ids, profile_dir, chroot, idfiles>>
    /\ UNCHANGED <<stopPending, reaped, stops, environ>>

\* a post-step that leaves the placeholder mounted
unmount_exclude_Skipped(w, self, p) == Res(w, "")

\* 463-465: umount(rootdir.join(p.strip_prefix("/").unwrap()))
unmount_exclude(w, self, p) ==
    sys_umount(w, join(self.rootdir, strip_prefix(p, AbsP(<<>>))))

\* 460-467: unmount the placeholder of one exclude
ChildUnmountExclude ==
    /\ ChildRuns("umount")
    /\ \E p \in todo.umount :
         /\ todo' = [todo EXCEPT !.umount = @ \ {p}]
         /\ \E u \in {unmount_exclude(world, Self, p)} :
                IF u.err # "" THEN ChildStep(Panic(world), "umount", <<>>)
                ELSE ChildStep(u.w, "umount", <<"umount">>)
    /\ UNCHANGED <<input, parentVars, cwd, ids, profile_dir, chroot, idfiles, mirrored>>
    /\ UNCHANGED <<stopPending, reaped, stops, environ>>

\* 469-486: create <scratch>/nix and bind the store onto it
nix_mount(self) == join(self.rootdir, RelP(<<"nix">>))
mount_store(w, self) ==
    The({ IF made.err # "" THEN Panic(w)
          ELSE The({ IF m.err # "" THEN Panic(made.w) ELSE m.w
                     : m \in {sys_mount(made.w, self.nixdir, nix_mount(self),
                                        BIND_REC)} })
          : made \in {mkdir(w, nix_mount(self))} })

ChildMountStore ==
    /\ ChildRuns("umount")
    /\ todo.umount = {}
    /\ IF input.fault = "store_mount"
       THEN ChildStep(Panic(world), "chroot", <<>>)
       ELSE ChildStep(mount_store(world, Self), "chroot", <<"store">>)
    /\ UNCHANGED <<input, parentVars, cwd, ids, profile_dir, todo, chroot, idfiles,
                   mirrored>>
    /\ UNCHANGED <<stopPending, reaped, stops, environ>>

\* 488-492: chroot(rootdir), then chdir("/")
ChildChroot ==
    /\ ChildRuns("chroot")
    /\ \E r \in {Lookup(world, <<>>, rootdir, TRUE)} :
           IF input.fault = "chroot" \/ r.err # "" \/ TypeAt(world, r.ns) # "dir"
           THEN ChildStep(Panic(world), "idmap", <<>>) /\ UNCHANGED chroot
           ELSE ChildStep(world, "idmap", <<"chroot", "chdir_root">>) /\ chroot' = r.ns
    /\ UNCHANGED <<input, parentVars, cwd, ids, profile_dir, todo, idfiles, mirrored>>
    /\ UNCHANGED <<stopPending, reaped, stops, environ>>

\* a row that maps the id to root inside the namespace
MapRow_ToRoot(id) == <<0, id, 1>>

\* format!("{} {} 1", id, id)
MapRow(id) == <<id, id, 1>>

\* 494-512: setgroups (a failure is ignored), uid_map, gid_map
ChildIdMap ==
    /\ ChildRuns("idmap")
    /\ LET sg == IF input.fault = "setgroups" THEN <<>> ELSE <<"deny">>
       IN  IF input.fault = "uid_map" THEN
               /\ idfiles' = [idfiles EXCEPT !.setgroups = @ \o sg]
               /\ ChildStep(Panic(world), "restore_cwd", <<>>)
           ELSE IF input.fault = "gid_map" THEN
               /\ idfiles' = [idfiles EXCEPT !.setgroups = @ \o sg,
                                             !.uid_map = Append(@, MapRow(ids.uid))]
               /\ ChildStep(Panic(world), "restore_cwd", <<>>)
           ELSE /\ idfiles' = [idfiles EXCEPT !.setgroups = @ \o sg,
                                              !.uid_map = Append(@, MapRow(ids.uid)),
                                              !.gid_map = Append(@, MapRow(ids.gid))]
                /\ ChildStep(world, "restore_cwd", <<"setgroups", "uid_map", "gid_map">>)
    /\ UNCHANGED <<input, parentVars, cwd, ids, profile_dir, todo, chroot, mirrored>>
    /\ UNCHANGED <<stopPending, reaped, stops, environ>>

\* 514-516: chdir back to the captured cwd, now looked up inside the view
ChildRestoreCwd ==
    /\ ChildRuns("restore_cwd")
    /\ \E r \in {Lookup(world, chroot, cwd, TRUE)} :
           IF r.err # "" \/ TypeAt(world, r.ns) # "dir"
           THEN ChildStep(Panic(world), "exec", <<>>)
           ELSE ChildStep(world, "exec", <<"restore_cwd">>)
    /\ UNCHANGED <<input, parentVars, cwd, ids, profile_dir, todo, chroot, idfiles,
                   mirrored>>
    /\ UNCHANGED <<stopPending, reaped, stops, environ>>

\* 518-524: exec the command; when exec fails, report it and exit(1)
\* a Command that clears the inherited environment before setting the variable
command_env_Cleared(env) == ("NIX_CONF_DIR" :> "/nix/etc/nix")

\* 518-520: Command::new(cmd).args(args).env("NIX_CONF_DIR", "/nix/etc/nix"):
\* the inherited environment with the variable set
command_env(env) == ("NIX_CONF_DIR" :> "/nix/etc/nix") @@ env

ChildExec ==
    /\ ChildRuns("exec")
    /\ IF input.fault = "exec"
       THEN /\ child' = Exited(1)
            /\ world' = EndChild(world) /\ UNCHANGED <<cpc, trace, environ>>
       ELSE ChildStep(world, "running", <<"exec">>) /\ environ' = command_env(environ)
    /\ UNCHANGED <<input, parentVars, cwd, ids, profile_dir, todo, chroot, idfiles,
                   mirrored>>
    /\ UNCHANGED <<stopPending, reaped, stops>>

(***************************************************************************)
(* The user command and the signals the environment delivers to the child. *)
(***************************************************************************)
ChildAlive == child.tag \in {"Running", "Stopped"}

CommandExits ==
    /\ ChildRuns("running")
    /\ \E n \in 0..MaxExitStatus : child' = Exited(n)
    /\ world' = EndChild(world)
    /\ UNCHANGED <<input, parentVars, childVars>>
    /\ UNCHANGED <<stopPending, reaped, stops, environ>>

\* a terminating signal; a stopped process is only ended by SIGKILL
EnvKillChild ==
    /\ ChildAlive
    /\ \E sig \in Signals :
         /\ child.tag = "Stopped" => sig = "SIGKILL"
         /\ child' = Signaled(sig)
    /\ world' = EndChild(world)
    /\ UNCHANGED <<input, parentVars, childVars>>
    /\ UNCHANGED <<stopPending, reaped, stops, environ>>

EnvStopChild ==
    /\ child = Running
    /\ stops < MaxStops
    /\ child' = Stopped(SIGSTOP)
    /\ stopPending' = TRUE
    /\ stops' = stops + 1
    /\ UNCHANGED <<input, world, parentVars, childVars, reaped>>

EnvContChild ==
    /\ child.tag = "Stopped"
    /\ child' = Running
    /\ stopPending' = FALSE
    /\ UNCHANGED <<input, world, parentVars, childVars, reaped, stops>>

Next ==
    \/ MainArgs \/ MainCanonicalize \/ MainLoadConfig \/ MainFork
    \/ WaitForChild \/ ParentCleanup \/ EnvStopParent \/ EnvContParent
    \/ ChildUnshare \/ ChildOpenGL \/ ChildProfileDir \/ ChildExplicitMount
    \/ ChildListRoot \/ ChildMirrorRoot \/ ChildUnmountExclude \/ ChildMountStore
    \/ ChildChroot \/ ChildIdMap \/ ChildRestoreCwd \/ ChildExec
    \/ CommandExits \/ EnvKillChild \/ EnvStopChild \/ EnvContChild

Spec == Init /\ [][Next]_vars

(***************************************************************************)
(* resolve_nix_path on its own: one call for a filesystem, a path and a    *)
(* mode; the result is kept in profile_dir.                                *)
(***************************************************************************)
HostOwnNix ==
    (<<"nix", "hostonly">> :> File) @@ (<<"own">> :> Symlink(AbsP(<<"nix", "hostonly">>)))
ResolverHosts ==
    { HostBase @@ StoreProfile @@ HostNixLink @@ HostNixChains @@ HostLinks,
      HostBase @@ StoreProfile @@ HostDeadNixLink @@ HostOwnNix,
      HostBase @@ StoreProfileLoop @@ HostNixLink }
\* every entry of the filesystem, and a name that is missing beneath it
ResolverPaths(files) ==
    {AbsP(q) : q \in DOMAIN files} \cup {AbsP(Append(q, "x")) : q \in DOMAIN files}
    \cup {AbsP(<<"lnk", "prof", "share">>), AbsP(<<"lnk", "prof", "x">>)}
ResolverRuns ==
    UNION {{Run(h, NoPolicy, {}, "none", {}) @@ [p |-> p, stop |-> stop] :
               p \in ResolverPaths(Tree(h)), stop \in BOOLEAN} : h \in ResolverHosts}

ResolverInit ==
    /\ input \in ResolverRuns
    /\ world = [files |-> input.files, mounts |-> <<>>, refuse |-> input.refuse,
                failed |-> {}, panicked |-> FALSE, overflow |-> FALSE]
    /\ ppc = "main"
    /\ rootdir = NoPath
    /\ nixdir = AbsP(STORE)
    /\ path_config = NoPolicy
    /\ exit_status = 0
    /\ parentEnd = NotEnded
    /\ parentStopped = FALSE
    /\ cpc = "resolve"
    /\ child = NotForked
    /\ stopPending = FALSE
    /\ reaped = FALSE
    /\ stops = 0
    /\ lastWait = NotForked
    /\ cwd = NoPath
    /\ ids = [uid |-> 0, gid |-> 0]
    /\ profile_dir = RR("notfound", NoPath)
    /\ todo = NoTodo
    /\ chroot = <<>>
    /\ idfiles = [setgroups |-> <<>>, uid_map |-> <<>>, gid_map |-> <<>>]
    /\ mirrored = {}
    /\ environ = input.env
    /\ trace = <<>>

ResolveCall ==
    /\ cpc = "resolve"
    /\ cpc' = "resolved"
    /\ profile_dir' = resolve_nix_path(world, nixdir, input.p, input.stop,
                                       MaxResolveDepth)
    /\ UNCHANGED <<input, world, parentVars, procVars>>
    /\ UNCHANGED <<cwd, ids, todo, chroot, idfiles, mirrored, environ, trace>>

ResolverSpec == ResolverInit /\ [][ResolveCall]_vars

(***************************************************************************)
(* What the claims speak of.                                               *)
(***************************************************************************)
ScratchPath == Append(TMP.parts, TEMPLATE)
ScratchCreated == rootdir # NoPath
ScratchPresent == ScratchPath \in DOMAIN world.files
ParentEnded == ppc = "ended"

(***************************************************************************)
(* C1 as stated: when waitpid reported Exited(N) the parent exits with N;  *)
(* when it reported an error or another event, the parent exits with 1.    *)
(***************************************************************************)
C1_ExitCodeMapping ==
    ParentEnded =>
        /\ lastWait.tag = "Exited" => parentEnd = ProcessExit(lastWait.status)
        /\ lastWait.tag \in {"Err", "Stopped"} => parentEnd = ProcessExit(1)

(***************************************************************************)
(* C1 amended: the step that ends the parent after the wait loop ends it   *)
(* with that status exactly when the removal of the scratch root           *)
(* succeeded; when remove_dir_all fails the parent panics instead and the  *)
(* scratch root is still there.                                            *)
(***************************************************************************)
C1_ExitCodeUnlessCleanupFails ==
    [][(ppc = "cleanup" /\ ppc' = "ended") =>
          /\ lastWait.tag \in {"Exited", "Err", "Stopped"}
          /\ IF ScratchPresent'
             THEN parentEnd' = Panicked
             ELSE parentEnd' = ProcessExit(IF lastWait.tag = "Exited"
                                           THEN lastWait.status ELSE 1)]_vars

C1_Witness ==
    /\ ParentEnded
    /\ lastWait = Exited(2)
    /\ parentEnd = ProcessExit(2)

(***************************************************************************)
(* C2 as stated: when the child was terminated by a signal S, the parent   *)
(* ends terminated by S, never by a normal exit.                           *)
(***************************************************************************)
C2_SignalTransparency ==
    (ParentEnded /\ reaped /\ child.tag = "Signaled") => parentEnd = KilledBy(child.sig)

(***************************************************************************)
(* C3 as stated: once waitpid has reported the child stopped, the parent   *)
(* is still in the wait loop and the scratch root is still there.          *)
(***************************************************************************)
C3_JobControl ==
    lastWait.tag = "Stopped" => ppc \in {"wait", "cont_child"} /\ ScratchPresent

(***************************************************************************)
(* C4 as stated: when the parent has ended after mkdtemp created the       *)
(* scratch root, the scratch root has been removed.                        *)
(***************************************************************************)
C4_ScratchReleased ==
    (ParentEnded /\ ScratchCreated) => ~ScratchPresent

(***************************************************************************)
(* C5 as stated: the parent is removing or has removed the scratch root    *)
(* only when the child has finished.                                       *)
(***************************************************************************)
C5_DisjointLifetimes ==
    (ppc = "cleanup" \/ (ScratchCreated /\ ~ScratchPresent)) => ~ChildAlive

(***************************************************************************)
(* The construction steps and the finished view.                           *)
(***************************************************************************)
Count(step) == Cardinality({i \in 1..Len(trace) : trace[i] = step})
OrderedBy(rank) ==
    \A i, j \in 1..Len(trace) : i < j => rank[trace[i]] <= rank[trace[j]]
SingleSteps == {"cwd", "ids", "unshare", "store", "chroot", "chdir_root",
                "setgroups", "uid_map", "gid_map", "restore_cwd", "exec"}
HostRootNames == {q[1] : q \in {q \in DOMAIN input.files : Len(q) = 1}}
\* exec has happened in a child that the parent is still waiting for, so
\* nothing but run_chroot has touched the scratch root
Constructed == cpc = "running" /\ ChildAlive /\ ppc # "ended"
InView(p, follow) == Lookup(world, chroot, p, follow)
OnHost(p, follow) == Lookup(world, <<>>, p, follow)
Related(p, q) == IsPrefix(p.parts, q.parts) \/ IsPrefix(q.parts, p.parts)

(***************************************************************************)
(* C6 as stated: in a run that reached exec the steps happened in the      *)
(* order capture cwd and ids, unshare, opengl-driver bind, exclude         *)
(* placeholders, profile mounts, absolute mounts, default mirror of every  *)
(* entry of / but nix, unmount of every exclude, store bind, chroot and    *)
(* chdir, identity mapping, restore cwd, exec; each single step once, one  *)
(* mount per policy entry, one mirror per root entry, one unmount per      *)
(* exclude.                                                                *)
(***************************************************************************)
StatedRank ==
    [cwd |-> 1, ids |-> 1, unshare |-> 2, ogl |-> 3, exclude |-> 4, profile |-> 5,
     absolute |-> 6, mirror |-> 7, umount |-> 8, store |-> 9, chroot |-> 10,
     chdir_root |-> 11, setgroups |-> 12, uid_map |-> 12, gid_map |-> 12,
     restore_cwd |-> 13, exec |-> 14]
StepCounts ==
    /\ \A step \in SingleSteps : Count(step) = 1
    /\ Count("ogl") <= 1
    /\ Count("exclude") = Cardinality(path_config.excludes)
    /\ Count("profile") = IF profile_dir.res = "ok"
                          THEN Cardinality(path_config.profile) ELSE 0
    /\ Count("absolute") = Cardinality(path_config.absolute)
    /\ Count("mirror") = Cardinality(HostRootNames \ {"nix"})
    /\ Count("umount") = Cardinality(path_config.excludes)
C6_ConstructionOrder ==
    Count("exec") > 0 => OrderedBy(StatedRank) /\ StepCounts

(***************************************************************************)
(* C7: the default pass never mirrors the entry of / named nix, and the    *)
(* step that performs chroot finds <scratch>/nix a directory on which the  *)
(* canonicalised store is bind-mounted with BIND|REC, so that /nix in the  *)
(* view is the store directory.                                            *)
(***************************************************************************)
StoreMounted ==
    /\ Visible(world, nix_mount(Self).parts)
    /\ world.mounts[nix_mount(Self).parts].src = nixdir.parts
    /\ world.mounts[nix_mount(Self).parts].flags = BIND_REC
    /\ TypeAt(world, nix_mount(Self).parts) = "dir"
    /\ InView(NIX, TRUE).err = ""
    /\ Phys(world, InView(NIX, TRUE).ns) = nixdir.parts
C7_StoreVisibility ==
    [][/\ "nix" \notin mirrored'
       /\ (cpc = "chroot" /\ cpc' = "idmap") => StoreMounted']_vars

C7_Witness ==
    /\ cpc = "running"
    /\ ChildAlive
    /\ "nix" \in HostRootNames
    /\ StoreMounted

(***************************************************************************)
(* C8 as stated: when construction is complete every excluded path is, in  *)
(* the view, absent or a zero-byte regular file with no mount on it.       *)
(***************************************************************************)
Absent(r) == r.err # "" \/ ~Present(world, r.ns)
Unmounted(r) == r.ns \notin DOMAIN world.mounts
EmptyDir(r) ==
    /\ NodeAt(world, r.ns) = MadeDir
    /\ \A q \in DOMAIN world.files : q = <<>> \/ Front(q) # Phys(world, r.ns)
C8_Exclusion ==
    Constructed =>
        \A p \in path_config.excludes :
            \/ Absent(InView(p, FALSE))
            \/ /\ NodeAt(world, InView(p, FALSE).ns) = MadeFile
               /\ Unmounted(InView(p, FALSE))

(***************************************************************************)
(* C8 amended: every excluded path is, in the view, absent or an entry the *)
(* constructor itself created, a zero-byte file or an empty directory,     *)
(* with no mount on it.                                                    *)
(***************************************************************************)
C8_ExclusionLeavesPlaceholder ==
    Constructed =>
        \A p \in path_config.excludes :
            \/ Absent(InView(p, FALSE))
            \/ /\ \/ NodeAt(world, InView(p, FALSE).ns) = MadeFile
                  \/ EmptyDir(InView(p, FALSE))
               /\ Unmounted(InView(p, FALSE))

C8_Witness ==
    /\ Constructed
    /\ ETC_HOSTNAME \in path_config.excludes
    /\ ~Absent(InView(ETC_HOSTNAME, FALSE))
    /\ NodeAt(world, InView(ETC_HOSTNAME, FALSE).ns) = MadeFile
    /\ Unmounted(InView(ETC_HOSTNAME, FALSE))

(***************************************************************************)
(* C9 as stated: when construction is complete, every absolute mount       *)
(* (src, dst) whose src exists on the host and whose dst is absolute has   *)
(* dst in the view backed by src, and every host entry of every parent     *)
(* directory of dst is present in the view.                                *)
(***************************************************************************)
BackedBy(dst, src) ==
    /\ ~Absent(InView(dst, TRUE))
    /\ ~Absent(OnHost(src, TRUE))
    /\ Phys(world, InView(dst, TRUE).ns) = Phys(world, OnHost(src, TRUE).ns)
ParentDirs(dst) == {AbsP(SubSeq(dst.parts, 1, k)) : k \in 0..Len(dst.parts) - 1}
HostEntries(dir) == read_dir(world, dir) \ (IF dir.parts = <<>> THEN {"nix"} ELSE {})
SiblingsPresent(dirs) ==
    \A dir \in dirs : \A name \in HostEntries(dir) :
        ~Absent(InView(join(dir, RelP(<<name>>)), FALSE))
C9_ExplicitMountsWin ==
    Constructed =>
        \A m \in path_config.absolute :
            (exists(world, m.src) /\ is_absolute(m.dst)) =>
                BackedBy(m.dst, m.src) /\ SiblingsPresent(ParentDirs(m.dst))

(***************************************************************************)
(* C9 amended: the same for an absolute mount whose src is a regular file  *)
(* or a directory outside /nix that can be bound, and whose dst names an   *)
(* entry that no other policy entry and no opengl-driver mount lies on,    *)
(* above or beneath; the host entries that stay present are those of the   *)
(* parent directories of dst that are real directories on the host, not    *)
(* reached through a symlink.                                              *)
(***************************************************************************)
OtherPolicyDsts(m) ==
    path_config.excludes
    \cup {x.dst : x \in path_config.absolute \ {m}}
    \cup {x.dst : x \in path_config.profile}
    \cup {AbsP(OGL_MOUNT)}
Uncontested(m) ==
    /\ lstat_type(world, m.src) \in {"file", "dir"}
    /\ ~starts_with(m.src, NIX)
    /\ Phys(world, OnHost(m.src, TRUE).ns) \notin world.refuse
    /\ is_absolute(m.dst)
    /\ has_file_name(m.dst)
    /\ \A d \in OtherPolicyDsts(m) : ~Related(d, m.dst)
RealParentDirs(dst) ==
    {dir \in ParentDirs(dst) :
        \A k \in 0..Len(dir.parts) :
            lstat_type(world, AbsP(SubSeq(dir.parts, 1, k))) = "dir"}
C9_UncontestedMountsWin ==
    Constructed =>
        \A m \in path_config.absolute :
            Uncontested(m) =>
                BackedBy(m.dst, m.src) /\ SiblingsPresent(RealParentDirs(m.dst))

C9_Witness ==
    /\ Constructed
    /\ Mount(OVERRIDE, ETC_GROUP) \in path_config.absolute
    /\ Uncontested(Mount(OVERRIDE, ETC_GROUP))
    /\ BackedBy(ETC_GROUP, OVERRIDE)
    /\ ~Absent(InView(ETC_HOSTNAME, FALSE))

(***************************************************************************)
(* C10 as stated: with an empty policy, the step that completes            *)
(* construction leaves the names directly under / in the view equal to     *)
(* the host's with nix added, every host root entry other than nix in the  *)
(* scratch root under its name, and no step of the default pass aborts     *)
(* construction.                                                           *)
(***************************************************************************)
EmptyPolicy ==
    path_config.excludes = {} /\ path_config.profile = {} /\ path_config.absolute = {}
ViewRootNames ==
    {Last(q) : q \in {q \in DOMAIN world.files :
                          q # <<>> /\ Front(q) = Phys(world, chroot)}}
InScratchRoot(name) == Append(rootdir.parts, name) \in DOMAIN world.files
Aborted == child \in {Exited(101), Signaled("SIGABRT")}
AbortsInDefaultPass == cpc = "mirror" /\ child = Running /\ Aborted' /\ ppc # "ended"
Completes == cpc = "exec" /\ cpc' = "running" /\ ppc # "ended"
C10_HostRootMirroring ==
    [][EmptyPolicy =>
          /\ Completes =>
                /\ ViewRootNames' = HostRootNames \cup {"nix"}
                /\ \A name \in HostRootNames \ {"nix"} : InScratchRoot(name)'
          /\ ~AbortsInDefaultPass]_vars

(***************************************************************************)
(* C10 amended: the view also has the name run when the store holds        *)
(* var/nix/opengl-driver/lib, and the default pass aborts construction     *)
(* only when the host holds an entry that is neither directory, regular    *)
(* file nor symlink (other than /dev/null), or a symlink into /nix that    *)
(* does not resolve in the store.                                          *)
(***************************************************************************)
OpenGLNames == IF Count("ogl") > 0 THEN {"run"} ELSE {}
Unmirrorable(q) ==
    \/ input.files[q].type = "other" /\ AbsP(q) # DEV_NULL
    \/ /\ input.files[q].type = "symlink"
       /\ resolve_nix_path(world, nixdir, AbsP(q), TRUE, MaxResolveDepth).res # "ok"
C10_HostRootMirroredUnlessUnmirrorable ==
    [][EmptyPolicy =>
          /\ Completes =>
                /\ ViewRootNames' = HostRootNames \cup {"nix"} \cup OpenGLNames
                /\ \A name \in HostRootNames \ {"nix"} : InScratchRoot(name)'
          /\ AbortsInDefaultPass => \E q \in DOMAIN input.files : Unmirrorable(q)]_vars

C10_Witness ==
    /\ Constructed
    /\ EmptyPolicy
    /\ world.failed # {}
    /\ ViewRootNames = HostRootNames \cup {"nix"}

(***************************************************************************)
(* Symlinks the mirror engine created in the scratch root, by the host     *)
(* path they mirror.                                                       *)
(***************************************************************************)
InScratch(q) == ScratchPath \o q
HostSymlinks == {q \in DOMAIN input.files : input.files[q].type = "symlink"}
PolicyDsts ==
    path_config.excludes \cup {x.dst : x \in path_config.absolute}
    \cup {x.dst : x \in path_config.profile}
\* the host symlink at q has a made symlink at the same place of the scratch
\* root, and no policy entry names that place
MirroredLink(q) ==
    /\ q \in HostSymlinks
    /\ InScratch(q) \in DOMAIN world.files
    /\ world.files[InScratch(q)].type = "symlink"
    /\ world.files[InScratch(q)].made
    /\ AbsP(q) \notin PolicyDsts
HostTarget(q) == input.files[q].target
MirroredTarget(q) == world.files[InScratch(q)].target

InStore(target) == join(nixdir, strip_prefix(target, NIX))
\* where one symlink hop from p leads, /nix rewritten to the store
Hop(p) ==
    IF starts_with(rebased(p, read_link(world, p)), NIX)
    THEN InStore(rebased(p, read_link(world, p)))
    ELSE rebased(p, read_link(world, p))
\* the paths one hop from p: a symlink that is p or a directory above p is
\* replaced by where it leads
Hops(p) ==
    {join(Hop(Path(p.abs, SubSeq(p.parts, 1, k))),
          RelP(SubSeq(p.parts, k + 1, Len(p.parts)))) :
        k \in {k \in 1..Len(p.parts) :
                  is_symlink(world, Path(p.abs, SubSeq(p.parts, 1, k)))}}
RECURSIVE ResolvedFrom(_, _)
ResolvedFrom(p, hops) ==
    IF hops = 0 THEN {p}
    ELSE {p} \cup UNION {ResolvedFrom(x, hops - 1) : x \in Hops(p)}
C12_NixSymlinkRewrite ==
    \A q \in DOMAIN input.files :
        (MirroredLink(q) /\ starts_with(HostTarget(q), NIX)) =>
            /\ ~starts_with(MirroredTarget(q), NIX)
            /\ \E r \in ResolvedFrom(InStore(HostTarget(q)), MaxResolveDepth) :
                   starts_with(MirroredTarget(q), r)

C12_Witness ==
    /\ Constructed
    /\ MirroredLink(<<"plnk">>)
    /\ MirroredTarget(<<"plnk">>) = AbsP(STORE \o <<"store", "prof">>)
    /\ MirroredLink(<<"olnk">>)
    /\ MirroredTarget(<<"olnk">>) = AbsP(<<"etc">>)
    /\ MirroredLink(<<"dl">>)
    /\ MirroredTarget(<<"dl">>) = AbsP(STORE \o <<"store", "prof", "share", "data">>)

(***************************************************************************)
(* C13: in a run that reached exec, uid_map holds the one row              *)
(* <uid> <uid> 1 and gid_map the one row <gid> <gid> 1 of the ids captured *)
(* before unshare, both written once, after unshare and after chroot, and  *)
(* after the attempt on setgroups; a failed setgroups write does not stop  *)
(* construction, a failed map write stops it before exec.                  *)
(***************************************************************************)
Before(a, b) ==
    \A i, j \in 1..Len(trace) : (trace[i] = a /\ trace[j] = b) => i < j
C13_IdentityMapping ==
    /\ Len(idfiles.uid_map) <= 1 /\ Len(idfiles.gid_map) <= 1
    /\ input.fault \in {"uid_map", "gid_map"} => Count("exec") = 0
    /\ Count("exec") > 0 =>
          /\ idfiles.uid_map = << <<input.uid, input.uid, 1>> >>
          /\ idfiles.gid_map = << <<input.gid, input.gid, 1>> >>
          /\ idfiles.setgroups = IF input.fault = "setgroups" THEN <<>>
                                 ELSE <<"deny">>
          /\ \A step \in {"ids", "unshare", "chroot", "setgroups", "uid_map",
                          "gid_map"} : Count(step) = 1
          /\ Before("ids", "unshare")
          /\ \A map \in {"uid_map", "gid_map"} :
                 Before("unshare", map) /\ Before("chroot", map) /\ Before(map, "exec")
          /\ Before("setgroups", "gid_map")

C13_Witness ==
    /\ Constructed
    /\ input.fault = "setgroups"
    /\ idfiles.setgroups = <<>>
    /\ idfiles.uid_map = << <<1000, 1000, 1>> >>
    /\ idfiles.gid_map = << <<100, 100, 1>> >>

(***************************************************************************)
(* C14: the command runs with the environment of the invocation in which   *)
(* NIX_CONF_DIR is /nix/etc/nix, added when absent and replaced when       *)
(* present; every other variable keeps its value and none is removed.      *)
(* Until exec the child has the environment of the invocation.             *)
(***************************************************************************)
C14_ChildEnvironment ==
    IF cpc = "running"
    THEN /\ DOMAIN environ = DOMAIN input.env \cup {"NIX_CONF_DIR"}
         /\ environ["NIX_CONF_DIR"] = "/nix/etc/nix"
         /\ \A name \in DOMAIN input.env \ {"NIX_CONF_DIR"} :
                environ[name] = input.env[name]
    ELSE environ = input.env

C14_Witness ==
    /\ cpc = "running"
    /\ "NIX_CONF_DIR" \in DOMAIN input.env
    /\ input.env["NIX_CONF_DIR"] = "/etc/nix"
    /\ environ["NIX_CONF_DIR"] = "/nix/etc/nix"
    /\ environ["PATH"] = "/usr/bin"

(***************************************************************************)
(* C15 as stated: the exclude placeholders are mirrored first, then the    *)
(* profile mounts, then the absolute mounts; no profile or absolute mount  *)
(* is performed while an exclude has still to get its placeholder.         *)
(***************************************************************************)
C15_PolicyOrder ==
    /\ Before("exclude", "profile")
    /\ Before("exclude", "absolute")
    /\ Before("profile", "absolute")
    /\ (Count("profile") > 0 \/ Count("absolute") > 0) => todo.excludes = {}

(***************************************************************************)
(* C16: a step of the child that makes mirror calls (a policy mount or a   *)
(* turn of the default pass) leaves every destination that was in the      *)
(* scratch root before the step as it was: the same entry, backed by the   *)
(* same mount; what the step adds lies in destinations it created, and     *)
(* every mount it makes is on a destination that was not there before.     *)
(***************************************************************************)
\* the places of the scratch root that host entries and policy entries name
Dests ==
    {InScratch(q) : q \in DOMAIN input.files
                        \cup UNION {{d.parts} \cup Prefixes(d.parts) : d \in PolicyDsts}}
MirrorStep ==
    /\ cpc \in {"mounts", "mirror"}
    /\ child = Running /\ child' = Running
    /\ ppc' = ppc
    /\ world' # world
Kept(ns) ==
    /\ Present(world', ns)
    /\ NodeAt(world', ns) = NodeAt(world, ns)
    /\ Phys(world', ns) = Phys(world, ns)
    /\ ns \in DOMAIN world.mounts =>
           ns \in DOMAIN world'.mounts /\ world'.mounts[ns].src = world.mounts[ns].src
C16_MirrorNeverOverrides ==
    [][MirrorStep =>
          /\ \A ns \in Dests : Present(world, ns) => Kept(ns)
          /\ \A m \in DOMAIN world'.mounts \ DOMAIN world.mounts :
                 ~Present(world, m)]_vars

C16_Witness ==
    /\ Constructed
    /\ Mount(OVERRIDE, ETC_GROUP) \in path_config.absolute
    /\ world.files[InScratch(<<"etc">>)] = MadeDir
    /\ InScratch(<<"etc">>) \notin DOMAIN world.mounts
    /\ world.mounts[InScratch(<<"etc", "group">>)].src = OVERRIDE.parts
    /\ world.mounts[InScratch(<<"etc", "hostname">>)].src = ETC_HOSTNAME.parts

(***************************************************************************)
(* C17 as stated: once a bind mount of the mirror engine has failed and    *)
(* been logged, with nothing else failing and the parent still waiting, no *)
(* later step of the child aborts construction.                            *)
(***************************************************************************)
C17_BindFailureTolerated ==
    [][(world.failed # {} /\ input.fault = "none" /\ ppc # "ended"
          /\ child = Running) => ~Aborted']_vars

(***************************************************************************)
(* C18 as stated: when a policy is present and the profile directory could *)
(* not be resolved, no profile mount is performed, construction goes on    *)
(* past the resolution, and once the policy mounts are done every exclude  *)
(* has had its placeholder call and every absolute mount has been made.    *)
(***************************************************************************)
ProfileUnresolved ==
    path_config.present /\ profile_dir.path # NoPath /\ profile_dir.res # "ok"
C18_MissingProfile ==
    ProfileUnresolved =>
        /\ Count("profile") = 0
        /\ ~(cpc = "policy" /\ Aborted)
        /\ cpc \notin {"policy", "mounts"} =>
               /\ Count("exclude") = Cardinality(path_config.excludes)
               /\ Count("absolute") = Cardinality(path_config.absolute)

(***************************************************************************)
(* The result of one resolve_nix_path call in follow-all mode.             *)
(***************************************************************************)
FollowAllResult == cpc = "resolved" /\ ~input.stop
NixLinksAbove(p) ==
    {k \in 0..Len(p.parts) - 1 :
        /\ is_symlink(world, Path(p.abs, SubSeq(p.parts, 1, k)))
        /\ starts_with(read_link(world, Path(p.abs, SubSeq(p.parts, 1, k))), NIX)}
ReachedFrom(p) == ResolvedFrom(p, 2 * MaxResolveDepth)
ResolvedWell(r) ==
    /\ exists(world, r.path)
    /\ ~is_symlink(world, r.path)
    /\ r.path \in ReachedFrom(input.p)
\* neither a symlink nor there, with no symlink into /nix above it
DeadEnd(q) == ~is_symlink(world, q) /\ ~exists(world, q) /\ NixLinksAbove(q) = {}

(***************************************************************************)
(* C19 as stated: the call returns a path that exists, is not a symlink    *)
(* and was reached from p by following symlinks with /nix rewritten to the *)
(* store, or it signals NotFound; NotFound exactly when p does not exist   *)
(* and no proper prefix of p is a symlink whose target begins with /nix.   *)
(***************************************************************************)
C19_FollowAllResult ==
    FollowAllResult =>
        /\ profile_dir.res \in {"ok", "notfound"}
        /\ profile_dir.res = "ok" => ResolvedWell(profile_dir)
        /\ profile_dir.res = "notfound" <=>
               (~exists(world, input.p) /\ NixLinksAbove(input.p) = {})

(***************************************************************************)
(* C19 amended: a call that returns gives a path that exists, is not a     *)
(* symlink and was reached from p in that way, or signals NotFound; it     *)
(* signals NotFound only when some path reached from p is a dead end       *)
(* (not a symlink, not there, no symlink into /nix above it), and always   *)
(* when p itself is a dead end.                                            *)
(***************************************************************************)
C19_FollowAllResultWhenReturned ==
    FollowAllResult =>
        /\ profile_dir.res = "ok" => ResolvedWell(profile_dir)
        /\ profile_dir.res = "notfound" => \E q \in ReachedFrom(input.p) : DeadEnd(q)
        /\ DeadEnd(input.p) => profile_dir.res = "notfound"

C19_Witness ==
    /\ FollowAllResult
    /\ input.p = AbsP(<<"lnk", "prof", "x">>)
    /\ NixLinksAbove(input.p) # {}
    /\ profile_dir.res = "notfound"
    /\ DeadEnd(AbsP(STORE \o <<"store", "prof", "x">>))

(***************************************************************************)
(* C20 as stated: every directory, placeholder file and symlink that the   *)
(* constructor and the mirror engine create lies physically inside the     *)
(* scratch root, never in the store or in another host directory.          *)
(***************************************************************************)
C20_WritesStayInScratch ==
    \A q \in DOMAIN world.files : world.files[q].made => IsPrefix(ScratchPath, q)

(***************************************************************************)
(* The moment before the first mirror call: the child is about to apply    *)
(* the first policy mount or, without one, to mirror the first entry of /. *)
(***************************************************************************)
NoMirrorCallYet ==
    \A kind \in {"profile", "exclude", "absolute", "mirror"} : Count(kind) = 0
FirstCallPending ==
    /\ child = Running
    /\ NoMirrorCallYet
    /\ \/ cpc = "mounts" /\ NextExplicit # {}
       \/ cpc = "mirror" /\ todo.root # {}
\* what lies beneath the scratch root, by its path from there
ScratchEntries ==
    {SubSeq(q, Len(ScratchPath) + 1, Len(q)) :
        q \in {q \in DOMAIN world.files : IsPrefix(ScratchPath, q) /\ q # ScratchPath}}

(***************************************************************************)
(* C21 as stated: when the first mirror call is about to be made the       *)
(* scratch root exists and has no entries, whatever the store holds.       *)
(***************************************************************************)
C21_ScratchEmptyAtStart ==
    FirstCallPending => ScratchPresent /\ ScratchEntries = {}

(***************************************************************************)
(* C21 amended: while the parent is still waiting, the scratch root then   *)
(* exists and holds nothing but run/opengl-driver/lib, which is there      *)
(* exactly when the store holds var/nix/opengl-driver/lib.                 *)
(***************************************************************************)
C21_ScratchHoldsOnlyOpenGL ==
    (FirstCallPending /\ ppc # "ended") =>
        /\ ScratchPresent
        /\ ScratchEntries =
               IF is_dir(world, join(nixdir, RelP(<<"var", "nix", "opengl-driver", "lib">>)))
               THEN {<<"run">>, <<"run", "opengl-driver">>,
                     <<"run", "opengl-driver", "lib">>}
               ELSE {}

C21_Witness ==
    /\ FirstCallPending
    /\ ppc # "ended"
    /\ cpc = "mounts"
    /\ path_config.excludes # {}
    /\ ScratchEntries = {<<"run">>, <<"run", "opengl-driver">>,
                         <<"run", "opengl-driver", "lib">>}

(***************************************************************************)
(* C22 as stated: in either mode every call of resolve_nix_path comes back *)
(* with a path or with NotFound; none recurses without end.                *)
(***************************************************************************)
C22_ResolverTerminates ==
    cpc = "resolved" => profile_dir.res \in {"ok", "notfound"}

(***************************************************************************)
(* The rest of the construction from a world w with the policy entries td  *)
(* still to mount (main.rs 421-516), each loop taken in one fixed order.   *)
(***************************************************************************)
Halted(w) == w.panicked \/ w.overflow
\* 378-419: the entries the iterator can yield next, and what is left then
PendingIn(td) ==
    IF td.profile # {} THEN {[kind |-> "profile", m |-> m] : m \in td.profile}
    ELSE IF td.excludes # {}
        THEN {[kind |-> "exclude", m |-> Mount(DEV_NULL, ex)] : ex \in td.excludes}
    ELSE {[kind |-> "absolute", m |-> m] : m \in td.absolute}
Without(td, item) ==
    IF item.kind = "profile" THEN [td EXCEPT !.profile = @ \ {item.m}]
    ELSE IF item.kind = "exclude" THEN [td EXCEPT !.excludes = @ \ {item.m.dst}]
    ELSE [td EXCEPT !.absolute = @ \ {item.m}]
\* 385-445: one turn of the loop over the explicit mounts
ExplicitStep(w, item) ==
    IF item.kind = "profile" /\ profile_dir.res # "ok" THEN w
    ELSE IF item.kind = "absolute" /\ ~is_absolute(item.m.src) THEN Panic(w)
    ELSE IF ~is_absolute(item.m.dst) THEN Panic(w)
    ELSE explicit_mount(w, Self, ExplicitSrc(item), item.m.dst)
RECURSIVE FinishExplicit(_, _)
FinishExplicit(w, td) ==
    IF Halted(w) \/ PendingIn(td) = {} THEN w
    ELSE The({ FinishExplicit(ExplicitStep(w, item), Without(td, item))
               : item \in {CHOOSE x \in PendingIn(td) : TRUE} })
\* 448-458: the default mirror of the entries of /
RECURSIVE FinishMirror(_, _)
FinishMirror(w, names) ==
    IF Halted(w) \/ names = {} THEN w
    ELSE The({ FinishMirror(IF SkipEntry(name) THEN w
                            ELSE bind_mount_entry(w, Self, DirEntry(AbsP(<<>>), name)),
                            names \ {name})
               : name \in {CHOOSE x \in names : TRUE} })
\* 460-467: the placeholders of the excludes are unmounted
RECURSIVE FinishUnmount(_, _)
FinishUnmount(w, ps) ==
    IF Halted(w) \/ ps = {} THEN w
    ELSE The({ The({ IF u.err # "" THEN Panic(w) ELSE FinishUnmount(u.w, ps \ {p})
                     : u \in {unmount_exclude(w, Self, p)} })
               : p \in {CHOOSE x \in ps : TRUE} })
\* 469-486: the store bind
FinishStore(w) ==
    IF Halted(w) THEN w
    ELSE IF input.fault = "store_mount" THEN Panic(w)
    ELSE mount_store(w, Self)
\* 488-516: chroot, the id maps and the chdir back to the captured cwd
FinishEnter(w) ==
    IF Halted(w) THEN w
    ELSE The({ IF input.fault \in {"chroot", "uid_map", "gid_map"}
                  \/ r.err # "" \/ TypeAt(w, r.ns) # "dir" THEN Panic(w)
               ELSE The({ IF c.err # "" \/ TypeAt(w, c.ns) # "dir" THEN Panic(w) ELSE w
                          : c \in {Lookup(w, r.ns, cwd, TRUE)} })
               : r \in {Lookup(w, <<>>, rootdir, TRUE)} })
Finish(w, td) ==
    The({ FinishEnter(FinishStore(FinishUnmount(
              FinishMirror(mounted, read_dir(mounted, AbsP(<<>>))),
              path_config.excludes)))
          : mounted \in {FinishExplicit(w, td)} })

\* every name a path of the filesystem has in the mount namespace
NamespacePaths(w) ==
    DOMAIN w.files
    \cup UNION {{m \o SubSeq(q, Len(w.mounts[m].src) + 1, Len(q)) :
                    q \in {q \in DOMAIN w.files : IsPrefix(w.mounts[m].src, q)}}
                : m \in DOMAIN w.mounts}
\* the view: the paths beneath the scratch root, each with its type, its
\* symlink target and the place it is mounted from
ViewOf(w) ==
    {[path |-> SubSeq(ns, Len(ScratchPath) + 1, Len(ns)),
      type |-> TypeAt(w, ns),
      target |-> NodeAt(w, ns).target,
      from |-> Phys(w, ns)] :
        ns \in {ns \in NamespacePaths(w) : IsPrefix(ScratchPath, ns) /\ Present(w, ns)}}
Outcome(w) ==
    IF Halted(w) THEN [aborted |-> TRUE, view |-> {}]
    ELSE [aborted |-> FALSE, view |-> ViewOf(w)]

(***************************************************************************)
(* C23 as stated: the view and whether construction aborts do not depend   *)
(* on the order in which the excludes set, the profile map and the         *)
(* absolute map are iterated: whichever pending entry of the map being     *)
(* iterated is mounted next, the construction finished from there ends     *)
(* with the same view and aborts in the same cases.                        *)
(***************************************************************************)
C23_OrderIndependence ==
    ChildRuns("mounts") =>
        \A item \in NextExplicit :
            Outcome(Finish(ExplicitStep(world, item), Taken(item)))
                = Outcome(Finish(world, todo))

====
